---- MODULE Spec2Model ----
(***************************************************************************)
(* chproxy reverse proxy (proxy.go): topology generations built by         *)
(* ApplyConfig, request scopes resolved by getRequestScope, admission by   *)
(* scope.inc / scope.dec, and the completion / timeout race of ServeHTTP.  *)
(* Times are in milliseconds.                                              *)
(***************************************************************************)
EXTENDS Integers, Sequences, FiniteSets, TLC

\* ------------------------------------------------------------------ bounds
\* number of ServeHTTP calls (one handler goroutine each)
NumReq == 2
\* number of ApplyConfig calls, the one made by NewReverseProxy included
MaxApply == 2
\* largest running-query count of a host handed to getHost
MaxCount == 3

Reqs == 1..NumReq

\* ----------------------------------------------------------- configurations
OutUser(n, p, mc, mt) ==
    [name |-> n, password |-> p, maxConcurrentQueries |-> mc, maxExecutionTime |-> mt]

GlobalUser(n, p, mc, mt, tc, tu) ==
    [name |-> n, password |-> p, maxConcurrentQueries |-> mc, maxExecutionTime |-> mt,
     toCluster |-> tc, toUser |-> tu]

ClusterCfg(n, nodes, outUsers) ==
    [name |-> n, scheme |-> "http", nodes |-> nodes, outUsers |-> outUsers]

\* u1: limit 1, 100ms (smaller than eu1's 500ms); u2: limit 2, 1500ms (larger)
CfgA ==
    [valid |-> TRUE,
     clusters |-> << ClusterCfg("c1", <<"h1", "h2">>, << OutUser("eu1", "epw", 2, 500) >>) >>,
     globalUsers |-> << GlobalUser("u1", "", 1, 100, "c1", "eu1"),
                        GlobalUser("u2", "pw", 2, 1500, "c1", "eu1") >>]

\* eu1: limit 1, 100ms; u1: limit 2, 1500ms; u2: limit 2, 100ms (equal to eu1's)
CfgB ==
    [valid |-> TRUE,
     clusters |-> << ClusterCfg("c1", <<"h3">>, << OutUser("eu1", "epw", 1, 100) >>) >>,
     globalUsers |-> << GlobalUser("u1", "pw", 2, 1500, "c1", "eu1"),
                        GlobalUser("u2", "", 2, 100, "c1", "eu1") >>]

\* rejected by cfg.Validate()
CfgInvalid == [CfgB EXCEPT !.valid = FALSE]

\* second node address does not parse as a URL
CfgBadNode ==
    [CfgB EXCEPT !.clusters = << ClusterCfg("c1", <<"h3", "bad host">>, << OutUser("eu1", "epw", 1, 100) >>) >>]

\* u2 is mapped to a cluster that is not configured
CfgNoCluster ==
    [CfgB EXCEPT !.globalUsers = << GlobalUser("u1", "pw", 2, 1500, "c1", "eu1"),
                                    GlobalUser("u2", "", 2, 100, "cX", "eu1") >>]

\* u2 is mapped to an execution user its cluster does not have
CfgNoUser ==
    [CfgB EXCEPT !.globalUsers = << GlobalUser("u1", "pw", 2, 1500, "c1", "eu1"),
                                    GlobalUser("u2", "", 2, 100, "c1", "euX") >>]

\* a cluster of three hosts; u3 is the user of the requests that are running
\* on them when getHost is called
CfgH ==
    [valid |-> TRUE,
     clusters |-> << ClusterCfg("c1", <<"h1", "h2", "h3">>, << OutUser("eu1", "epw", 2, 500) >>) >>,
     globalUsers |-> << GlobalUser("u1", "", 1, 100, "c1", "eu1"),
                        GlobalUser("u2", "pw", 2, 1500, "c1", "eu1"),
                        GlobalUser("u3", "pw", 2, 1500, "c1", "eu1") >>]

Configs == {CfgA, CfgB, CfgInvalid, CfgBadNode, CfgNoCluster, CfgNoUser}

\* request credentials (basic auth) and backend call durations
ReqNames == {"u1", "u2", "nobody"}
ReqPasswords == {"", "pw"}
NoReturn == 0 - 1
Durations == {10, 500, NoReturn}

\* ------------------------------------------------------------ pure helpers
Range(s) == {s[i] : i \in 1..Len(s)}

\* index of the last element of s whose name is n (0 if none): a Go map
\* filled in slice order keeps the last value assigned to a key
LastIdx(s, n) ==
    LET I == {i \in 1..Len(s) : s[i].name = n}
    IN  IF I = {} THEN 0 ELSE CHOOSE i \in I : \A j \in I : j <= i

Min2(a, b) == IF a <= b THEN a ELSE b

\* ------------------------------------------------------- topology entities
\* cfg.Validate(): the configuration's own validity check
Validate(cfg) == cfg.valid

\* url.Parse(scheme://node) fails on a host name holding a space
UrlParseFails(node) == node = "bad host"

\* &host{addr: addr}: the running-query count starts at zero
NewHost(c, node) ==
    [addr |-> c.scheme \o "://" \o node, hostName |-> node, runningQueries |-> 0]

\* &executionUser{name, password}: the limits keep Go's zero value
NewExecutionUser(u) ==
    [name |-> u.name, password |-> u.password,
     maxConcurrentQueries |-> 0, maxExecutionTime |-> 0, runningQueries |-> 0]

\* &initialUser{executionUser{name, maxConcurrentQueries, maxExecutionTime},
\* toCluster, toUser}: the password keeps Go's zero value, the empty string
NewInitialUser(u) ==
    [name |-> u.name, password |-> "",
     maxConcurrentQueries |-> u.maxConcurrentQueries,
     maxExecutionTime |-> u.maxExecutionTime, runningQueries |-> 0,
     toCluster |-> u.toCluster, toUser |-> u.toUser]

NewCluster(c) ==
    [hosts |-> [i \in 1..Len(c.nodes) |-> NewHost(c, c.nodes[i])],
     users |-> [n \in {u.name : u \in Range(c.outUsers)} |->
                   NewExecutionUser(c.outUsers[LastIdx(c.outUsers, n)])]]

\* the clusters map of ApplyConfig
BuildClusters(cfg) ==
    [n \in {c.name : c \in Range(cfg.clusters)} |->
        NewCluster(cfg.clusters[LastIdx(cfg.clusters, n)])]

\* the initialUsers map of ApplyConfig
BuildUsers(cfg) ==
    [n \in {u.name : u \in Range(cfg.globalUsers)} |->
        NewInitialUser(cfg.globalUsers[LastIdx(cfg.globalUsers, n)])]

\* a node address of some cluster does not parse
ParseError(cfg) ==
    \E c \in Range(cfg.clusters) : \E node \in Range(c.nodes) : UrlParseFails(node)

\* an ApplyConfig that checks the cluster of a global user and not its
\* execution user
MappingErrorClusterOnly(cfg) ==
    \E u \in Range(cfg.globalUsers) : u.toCluster \notin DOMAIN BuildClusters(cfg)

\* some global user names a cluster, or a user of its cluster, that the
\* clusters map does not hold
MappingError(cfg) ==
    LET clusters == BuildClusters(cfg)
    IN  \E u \in Range(cfg.globalUsers) :
            \/ u.toCluster \notin DOMAIN clusters
            \/ /\ u.toCluster \in DOMAIN clusters
               /\ u.toUser \notin DOMAIN clusters[u.toCluster].users

\* ApplyConfig returns a non-nil error for cfg
ApplyError(cfg) == ~Validate(cfg) \/ ParseError(cfg) \/ MappingError(cfg)

\* one topology generation: the two maps ApplyConfig builds, with the
\* configuration they were built from
NewGeneration(cfg) ==
    [cfg |-> cfg, clusters |-> BuildClusters(cfg), users |-> BuildUsers(cfg)]

\* -------------------------------------------------------------------- state
VARIABLES
    gens,           \* every topology generation built so far (the heap)
    rpUsers,        \* rp.users: index into gens, 0 for the nil map
    rpClusters,     \* rp.clusters: index into gens, 0 for the nil map
    rpMu,           \* rp.Mutex
    ac,             \* the ApplyConfig call in progress, or the last one
    nApply,         \* ApplyConfig calls that have returned
    req,            \* the ServeHTTP calls: locals, response stream, backend task
    requestSum,     \* metric request_sum, by label
    requestSuccess, \* metric request_success, by label
    timeouts        \* metric request_timeouts, by label

vars == <<gens, rpUsers, rpClusters, rpMu, ac, nApply, req,
          requestSum, requestSuccess, timeouts>>

NoCfg == [valid |-> FALSE, clusters |-> <<>>, globalUsers |-> <<>>]

NoScope == [gen |-> 0, cgen |-> 0, initialUser |-> "", executionUser |-> "",
            cluster |-> "", host |-> 0]

\* a ServeHTTP call before it starts
NewReq ==
    [pc |-> "idle", name |-> "", password |-> "", s |-> NoScope, err |-> "",
     d |-> 0, task |-> "none", branch |-> "", cancelled |-> FALSE, rw |-> <<>>, kills |-> <<>>,
     steps |-> <<>>, incs |-> 0, decs |-> 0,
     held |-> <<>>, i |-> 0, idle |-> 0]

\* the entities a scope points at
IU(s) == gens[s.gen].users[s.initialUser]
EU(s) == gens[s.cgen].clusters[s.cluster].users[s.executionUser]
HostOf(s) == gens[s.cgen].clusters[s.cluster].hosts[s.host]

\* prometheus.Labels of a scope
Label(s) ==
    [initial_user |-> IU(s).name, execution_user |-> EU(s).name,
     host |-> HostOf(s).hostName]

\* CounterVec.With(label).Inc()
MetricInc(m, l) ==
    IF l \in DOMAIN m THEN [m EXCEPT ![l] = @ + 1] ELSE m @@ (l :> 1)

EmptyMetric == [l \in {} |-> 0]

\* ------------------------------------------------------------- ApplyConfig
\* rp.Lock() in ApplyConfig succeeds only on a free mutex
ApplyCanLock == rpMu = "free"

\* ApplyConfig up to the point where both maps are built: an error return
\* (before or under the lock) leaves rp as it is; otherwise the new
\* generation exists and the lock stays held for the two assignments
ApplyConfigBuild(cfg) ==
    /\ ac.pc = "idle"
    /\ nApply < MaxApply
    /\ Validate(cfg) => ApplyCanLock
    /\ IF ApplyError(cfg)
       THEN /\ ac' = [pc |-> "idle", cfg |-> NoCfg, gen |-> 0, err |-> TRUE]
            /\ nApply' = nApply + 1
            /\ UNCHANGED <<gens, rpMu>>
       ELSE /\ gens' = Append(gens, NewGeneration(cfg))
            /\ ac' = [pc |-> "built", cfg |-> cfg, gen |-> Len(gens) + 1, err |-> FALSE]
            /\ rpMu' = "held"
            /\ UNCHANGED nApply
    /\ UNCHANGED <<rpUsers, rpClusters, req, requestSum, requestSuccess, timeouts>>

\* rp.clusters = clusters
ApplySetClusters ==
    /\ ac.pc = "built"
    /\ rpClusters' = ac.gen
    /\ ac' = [ac EXCEPT !.pc = "clustersSet"]
    /\ UNCHANGED <<gens, rpUsers, rpMu, nApply, req, requestSum, requestSuccess, timeouts>>

\* rp.users = initialUsers; return nil (the deferred Unlock runs)
ApplySetUsers ==
    /\ ac.pc = "clustersSet"
    /\ rpUsers' = ac.gen
    /\ ac' = [pc |-> "idle", cfg |-> NoCfg, gen |-> 0, err |-> FALSE]
    /\ rpMu' = "free"
    /\ nApply' = nApply + 1
    /\ UNCHANGED <<gens, rpClusters, req, requestSum, requestSuccess, timeouts>>

\* --------------------------------------------------------- getRequestScope
\* cluster.getHost over the host list: the index of the chosen host, 0 for nil
\* a getHost that replaces the tracked host on an equal count too
RECURSIVE GetHostLoopLast(_, _, _)
GetHostLoopLast(hosts, i, idle) ==
    IF i > Len(hosts) THEN idle
    ELSE IF hosts[i].runningQueries = 0 THEN i
    ELSE GetHostLoopLast(hosts, i + 1,
            IF idle = 0 \/ hosts[idle].runningQueries >= hosts[i].runningQueries
            THEN i ELSE idle)

RECURSIVE GetHostLoop(_, _, _)
GetHostLoop(hosts, i, idle) ==
    IF i > Len(hosts) THEN idle
    ELSE IF hosts[i].runningQueries = 0 THEN i
    ELSE GetHostLoop(hosts, i + 1,
            IF idle = 0 \/ hosts[idle].runningQueries > hosts[i].runningQueries
            THEN i ELSE idle)

GetHost(c) == GetHostLoop(c.hosts, 1, 0)

\* the maps a getRequestScope call reads
UsersMap == IF rpUsers = 0 THEN [n \in {} |-> 0] ELSE gens[rpUsers].users
ClustersMap == IF rpClusters = 0 THEN [n \in {} |-> 0] ELSE gens[rpClusters].clusters

\* what getRequestScope returns for the credentials: the scope and the error
ScopeFor(name, password) ==
    IF name \notin DOMAIN UsersMap
    THEN [s |-> NoScope, err |-> "invalid username or password"]
    ELSE LET iu == UsersMap[name] IN
    IF iu.password # password
    THEN [s |-> NoScope, err |-> "invalid username or password"]
    ELSE IF iu.toCluster \notin DOMAIN ClustersMap
    THEN [s |-> NoScope, err |-> "BUG: unknown cluster"]
    ELSE LET c == ClustersMap[iu.toCluster] IN
    IF iu.toUser \notin DOMAIN c.users
    THEN [s |-> NoScope, err |-> "BUG: unknown user"]
    ELSE [s |-> [gen |-> rpUsers, cgen |-> rpClusters, initialUser |-> name,
                 executionUser |-> iu.toUser, cluster |-> iu.toCluster,
                 host |-> GetHost(c)],
          err |-> ""]

\* a getRequestScope that reads rp's maps without taking the lock
ScopeNoLock == TRUE

\* rp.Lock() in getRequestScope succeeds only on a free mutex
ScopeCanLock == rpMu = "free"

\* s, err := rp.getRequestScope(req), the whole call under rp's lock; the
\* calls are numbered in the order they start
GetRequestScope(r) ==
    /\ req[r].pc = "idle"
    /\ IF r = 1 THEN TRUE ELSE req[r - 1].pc # "idle"
    /\ nApply >= 1
    /\ ScopeCanLock
    /\ \E name \in ReqNames, password \in ReqPasswords :
         LET res == ScopeFor(name, password) IN
         req' = [req EXCEPT ![r] = [@ EXCEPT !.pc = "scoped", !.name = name,
                                      !.password = password, !.s = res.s,
                                      !.err = res.err]]
    /\ UNCHANGED <<gens, rpUsers, rpClusters, rpMu, ac, nApply,
                   requestSum, requestSuccess, timeouts>>

\* ------------------------------------------------------ scope.inc / scope.dec
\* the error of s.inc(): a limit is hit when one more running query would
\* exceed it; the initial user is checked first
IncError(s) ==
    IF IU(s).runningQueries + 1 > IU(s).maxConcurrentQueries
    THEN "limits for initial user are exceeded"
    ELSE IF EU(s).runningQueries + 1 > EU(s).maxConcurrentQueries
    THEN "limits for execution user are exceeded"
    ELSE ""

\* the heap after adding k to the three running counters of a scope
Bump(s, k) ==
    [gens EXCEPT
        ![s.gen].users[s.initialUser].runningQueries = @ + k,
        ![s.cgen].clusters[s.cluster].users[s.executionUser].runningQueries = @ + k,
        ![s.cgen].clusters[s.cluster].hosts[s.host].runningQueries = @ + k]

\* the heap after s.inc(): all three counters reserved, or none on an error
Inc(s) == IF IncError(s) = "" THEN Bump(s, 1) ELSE gens

\* the heap after s.dec()
Dec(s) == Bump(s, 0 - 1)

\* ------------------------------------------------------------- ServeHTTP
\* a ServeHTTP that does not return on the error of s.inc()
AfterIncNoReturn(err) == "select"

\* where ServeHTTP goes after s.inc(): an error is answered and the handler
\* returns, otherwise the request is dispatched and the handler waits
AfterInc(err) == IF err # "" THEN "responded" ELSE "select"

\* ServeHTTP from the scope error check to the select: respond to a scope
\* error; else s.inc(), respond to its error; else count the request, start
\* the backend call in its own goroutine (it will take d ms, or never return)
Admit(r) ==
    /\ req[r].pc = "scoped"
    /\ LET s == req[r].s IN
       IF req[r].err # ""
       THEN /\ req' = [req EXCEPT ![r] = [NewReq EXCEPT !.pc = "responded",
                                            !.err = req[r].err,
                                            !.rw = <<req[r].err>>]]
            /\ UNCHANGED <<gens, requestSum>>
       ELSE LET err == IncError(s) IN
            IF AfterInc(err) = "responded"
            THEN /\ req' = [req EXCEPT ![r] = [NewReq EXCEPT !.pc = "responded",
                                                 !.err = err,
                                                 !.rw = <<err>>]]
                 /\ gens' = Inc(s)
                 /\ UNCHANGED requestSum
            ELSE /\ gens' = Inc(s)
                 /\ requestSum' = MetricInc(requestSum, Label(s))
                 /\ \E d \in Durations :
                      req' = [req EXCEPT ![r] = [NewReq EXCEPT !.pc = "select",
                                                   !.s = s, !.err = err,
                                                   !.d = d, !.task = "running",
                                                   !.incs = IF err = "" THEN 1 ELSE 0]]
    /\ UNCHANGED <<rpUsers, rpClusters, rpMu, ac, nApply, requestSuccess, timeouts>>

\* respondWithErr(rw, err); return
Return(r) ==
    /\ req[r].pc = "responded"
    /\ req' = [req EXCEPT ![r] = [NewReq EXCEPT !.pc = "done", !.rw = req[r].rw,
                                    !.incs = req[r].incs, !.decs = req[r].decs]]
    /\ UNCHANGED <<gens, rpUsers, rpClusters, rpMu, ac, nApply,
                   requestSum, requestSuccess, timeouts>>

\* the two deadlines of a dispatched request
InitialLimit(r) == IU(req[r].s).maxExecutionTime
ExecutionLimit(r) == EU(req[r].s).maxExecutionTime

\* ua := "ClickHouseProxy: <initial user name>"
UserAgent(s) == "ClickHouseProxy: " \o IU(s).name

\* the conditions of the two timeout branches
InitialCondition(s) == "http_user_agent = '" \o UserAgent(s) \o "'"
ExecutionCondition(s) == "initial_user = '" \o EU(s).name \o "'"

\* int(elapsed) of killQueries, elapsed being Duration.Seconds() of ms
ElapsedArg(ms) == ms \div 1000

\* doQuery(q, addr) returns: nil (TRUE) or an error (FALSE)
DoQueryOutcomes == BOOLEAN

\* a killQueries that gives up at the first doQuery that fails
KillQueriesStop(c, condition, ms, oks) ==
    LET F == {i \in 1..Len(c.hosts) : ~oks[i]}
        n == IF F = {} THEN Len(c.hosts) ELSE CHOOSE i \in F : \A j \in F : i <= j
    IN  [i \in 1..n |->
            [addr |-> c.hosts[i].addr, condition |-> condition,
             elapsed |-> ms \div 1000, ok |-> oks[i]]]

\* cluster.killQueries: one doQuery per host of the cluster, in list order,
\* whatever the earlier ones returned; oks[i] is whether doQuery succeeded
KillQueries(c, condition, ms, oks) ==
    [i \in 1..Len(c.hosts) |->
        [addr |-> c.hosts[i].addr, condition |-> condition,
         elapsed |-> ElapsedArg(ms), ok |-> oks[i]]]

\* a goroutine whose channel has room for one value: its send completes at
\* once and the goroutine ends
TaskAfterCallBuffered == "exited"

\* c <- struct{}{} on c := make(chan struct{}): the channel has no buffer, so
\* the goroutine stays in the send until the handler receives from c
TaskAfterCall == "sending"

\* the goroutine's rp.ReverseProxy.ServeHTTP(rw, req) returns: while the
\* handler is still in the select, at time d and no later than the first
\* deadline; once the context is cancelled, at any time. It has written its
\* response (or its error) to rw and now blocks on c <- struct{}{}
BackendReturn(r) ==
    /\ req[r].task = "running"
    /\ \/ /\ req[r].pc = "select"
          /\ req[r].d # NoReturn
          /\ req[r].d <= Min2(InitialLimit(r), ExecutionLimit(r))
       \/ req[r].cancelled
    /\ req' = [req EXCEPT ![r] = [@ EXCEPT !.task = TaskAfterCall,
                 !.rw = Append(@, IF req[r].cancelled THEN "bad gateway"
                                  ELSE "backend response")]]
    /\ UNCHANGED <<gens, rpUsers, rpClusters, rpMu, ac, nApply,
                   requestSum, requestSuccess, timeouts>>

\* a deadline of t ms is the first event of the race: the other deadline is
\* not earlier and a backend call of d ms has not returned earlier; at equal
\* times the select may take either ready case
FiresFirst(d, t, other) ==
    /\ t <= other
    /\ d = NoReturn \/ t <= d

\* a ServeHTTP whose timeout cases return without reaching s.dec()
AfterRaceReturn(branch) == IF branch = "completion" THEN "release" ELSE "done"

\* where ServeHTTP goes after a case of the select: on to s.dec()
AfterRace(branch) == "release"

\* case <-time.After(s.initialUser.maxExecutionTime), up to the return of
\* killQueries: cancel(), timeouts.Inc(), one kill query per host
TimeoutInitial(r) ==
    /\ req[r].pc = "select"
    /\ FiresFirst(req[r].d, InitialLimit(r), ExecutionLimit(r))
    /\ LET s == req[r].s
           c == gens[s.cgen].clusters[s.cluster] IN
       \E oks \in [1..Len(c.hosts) -> DoQueryOutcomes] :
         req' = [req EXCEPT ![r] = [@ EXCEPT
                   !.pc = "killed", !.cancelled = TRUE, !.branch = "initial", !.d = 0,
                   !.kills = KillQueries(c, InitialCondition(s), InitialLimit(r), oks),
                   !.steps = <<"cancel", "timeouts.Inc", "killQueries">>]]
    /\ timeouts' = MetricInc(timeouts, Label(req[r].s))
    /\ UNCHANGED <<gens, rpUsers, rpClusters, rpMu, ac, nApply, requestSum, requestSuccess>>

\* case <-time.After(s.executionUser.maxExecutionTime), up to the return of
\* killQueries
TimeoutExecution(r) ==
    /\ req[r].pc = "select"
    /\ FiresFirst(req[r].d, ExecutionLimit(r), InitialLimit(r))
    /\ LET s == req[r].s
           c == gens[s.cgen].clusters[s.cluster] IN
       \E oks \in [1..Len(c.hosts) -> DoQueryOutcomes] :
         req' = [req EXCEPT ![r] = [@ EXCEPT
                   !.pc = "killed", !.cancelled = TRUE, !.branch = "execution", !.d = 0,
                   !.kills = KillQueries(c, ExecutionCondition(s), ExecutionLimit(r), oks),
                   !.steps = <<"cancel", "timeouts.Inc", "killQueries">>]]
    /\ timeouts' = MetricInc(timeouts, Label(req[r].s))
    /\ UNCHANGED <<gens, rpUsers, rpClusters, rpMu, ac, nApply, requestSum, requestSuccess>>

\* the message of a timeout case
TimeoutMessage(s, branch) ==
    IF branch = "initial"
    THEN "timeout for initial user " \o IU(s).name \o " exceeded"
    ELSE "timeout for execution user " \o EU(s).name \o " exceeded"

\* rw.Write([]byte(message)), the last statement of a timeout case
WriteTimeout(r) ==
    /\ req[r].pc = "killed"
    /\ req' = [req EXCEPT ![r] = [@ EXCEPT
                 !.pc = AfterRace(req[r].branch),
                 !.rw = Append(@, TimeoutMessage(req[r].s, req[r].branch)),
                 !.steps = Append(@, "rw.Write")]]
    /\ UNCHANGED <<gens, rpUsers, rpClusters, rpMu, ac, nApply,
                   requestSum, requestSuccess, timeouts>>

\* case <-c: the goroutine's send is received and the goroutine ends
Complete(r) ==
    /\ req[r].pc = "select"
    /\ req[r].task = "sending"
    /\ req' = [req EXCEPT ![r] = [@ EXCEPT !.pc = AfterRace("completion"), !.branch = "completion",
                                    !.d = 0, !.task = "exited",
                                    !.steps = <<"requestSuccess.Inc">>]]
    /\ requestSuccess' = MetricInc(requestSuccess, Label(req[r].s))
    /\ UNCHANGED <<gens, rpUsers, rpClusters, rpMu, ac, nApply, requestSum, timeouts>>

\* a dec() on the entities the active maps hold under the scope's names
ReleaseHeapActive(s) == Dec([s EXCEPT !.gen = rpUsers, !.cgen = rpClusters])

\* a ServeHTTP that does not call s.dec()
ReleaseNoDec(s) == gens

\* the heap after line 101 of ServeHTTP: s.dec()
ReleaseHeap(s) == Dec(s)

\* s.dec() after the select, and the handler returns
Release(r) ==
    /\ req[r].pc = "release"
    /\ gens' = ReleaseHeap(req[r].s)
    /\ req' = [req EXCEPT ![r] = [NewReq EXCEPT !.pc = "done", !.rw = req[r].rw,
                                    !.task = req[r].task, !.cancelled = req[r].cancelled,
                                    !.incs = req[r].incs, !.decs = req[r].decs + 1]]
    /\ UNCHANGED <<rpUsers, rpClusters, rpMu, ac, nApply,
                   requestSum, requestSuccess, timeouts>>

\* ------------------------------------------------ the calls, lock by lock
\* the mutexes: rp's, a cluster's, a host's
RpMutex == [kind |-> "rp", gen |-> 0, cluster |-> "", host |-> 0]
ClusterMutex(s) == [kind |-> "cluster", gen |-> s.cgen, cluster |-> s.cluster, host |-> 0]
HostMutex(s, i) == [kind |-> "host", gen |-> s.cgen, cluster |-> s.cluster, host |-> i]

\* the mutexes a ServeHTTP call holds, in the order it took them, and those
\* the ApplyConfig call holds (thread 0)
Threads == Reqs \cup {0}

Held(t) ==
    IF t = 0
    THEN IF ac.pc \in {"built", "clustersSet"} THEN << RpMutex >> ELSE << >>
    ELSE req[t].held

\* Lock() returns only on a mutex that nobody holds
Free(m) == \A t \in Threads : m \notin Range(Held(t))

\* Unlock() of m by the call that holds it
Drop(held, m) == SelectSeq(held, LAMBDA x : x # m)

\* getRequestScope from rp.Lock() to the call of c.getHost(): an error
\* return runs the deferred rp.Unlock() at once
LockScope(r) ==
    /\ req[r].pc = "idle"
    /\ IF r = 1 THEN TRUE ELSE req[r - 1].pc # "idle"
    /\ nApply >= 1
    /\ ScopeCanLock
    /\ \E name \in ReqNames, password \in ReqPasswords :
         LET res == ScopeFor(name, password) IN
         IF res.err # ""
         THEN /\ req' = [req EXCEPT ![r] = [@ EXCEPT !.pc = "scoped", !.name = name,
                                              !.password = password, !.s = NoScope,
                                              !.err = res.err]]
              /\ UNCHANGED rpMu
         ELSE /\ req' = [req EXCEPT ![r] = [@ EXCEPT !.pc = "getHost", !.name = name,
                                              !.password = password,
                                              !.s = [res.s EXCEPT !.host = 0],
                                              !.held = << RpMutex >>]]
              /\ rpMu' = "held"
    /\ UNCHANGED <<gens, rpUsers, rpClusters, ac, nApply,
                   requestSum, requestSuccess, timeouts>>

\* c.Lock() of getHost; var idle *host
LockCluster(r) ==
    /\ req[r].pc = "getHost"
    /\ Free(ClusterMutex(req[r].s))
    /\ req' = [req EXCEPT ![r] = [@ EXCEPT !.pc = "hostLoop", !.i = 1, !.idle = 0,
                                    !.held = Append(@, ClusterMutex(req[r].s))]]
    /\ UNCHANGED <<gens, rpUsers, rpClusters, rpMu, ac, nApply,
                   requestSum, requestSuccess, timeouts>>

\* the hosts of the cluster a getHost call runs over
HostsOf(s) == gens[s.cgen].clusters[s.cluster].hosts

\* t.Lock() for the next host of the range
LockHost(r) ==
    /\ req[r].pc = "hostLoop"
    /\ req[r].i <= Len(HostsOf(req[r].s))
    /\ Free(HostMutex(req[r].s, req[r].i))
    /\ req' = [req EXCEPT ![r] = [@ EXCEPT !.pc = "hostLocked",
                                    !.held = Append(@, HostMutex(req[r].s, req[r].i))]]
    /\ UNCHANGED <<gens, rpUsers, rpClusters, rpMu, ac, nApply,
                   requestSum, requestSuccess, timeouts>>

\* a getHost that returns the idle host it has found without unlocking it
HeldAtReturnLeak(held, m) == held

\* t.Unlock(); return t
HeldAtReturn(held, m) == Drop(held, m)

\* the body of the range loop under t's lock: return t on a count of 0,
\* else track the less loaded host, unlock t and go on
ReadHost(r) ==
    /\ req[r].pc = "hostLocked"
    /\ LET s == req[r].s
           i == req[r].i
           hosts == HostsOf(s) IN
       IF hosts[i].runningQueries = 0
       THEN req' = [req EXCEPT ![r] = [@ EXCEPT !.pc = "gotHost", !.s.host = i,
                                        !.held = HeldAtReturn(@, HostMutex(s, i))]]
       ELSE req' = [req EXCEPT ![r] = [@ EXCEPT !.pc = "hostLoop", !.i = i + 1,
                      !.idle = IF \/ req[r].idle = 0
                                  \/ hosts[req[r].idle].runningQueries > hosts[i].runningQueries
                               THEN i ELSE req[r].idle,
                      !.held = Drop(@, HostMutex(s, i))]]
    /\ UNCHANGED <<gens, rpUsers, rpClusters, rpMu, ac, nApply,
                   requestSum, requestSuccess, timeouts>>

\* return idle, after the last host of the range
LoopEnd(r) ==
    /\ req[r].pc = "hostLoop"
    /\ req[r].i > Len(HostsOf(req[r].s))
    /\ req' = [req EXCEPT ![r] = [@ EXCEPT !.pc = "gotHost", !.s.host = req[r].idle]]
    /\ UNCHANGED <<gens, rpUsers, rpClusters, rpMu, ac, nApply,
                   requestSum, requestSuccess, timeouts>>

\* the deferred c.Unlock() of getHost
UnlockCluster(r) ==
    /\ req[r].pc = "gotHost"
    /\ req' = [req EXCEPT ![r] = [@ EXCEPT !.pc = "clusterUnlocked", !.i = 0, !.idle = 0,
                                    !.held = Drop(@, ClusterMutex(req[r].s))]]
    /\ UNCHANGED <<gens, rpUsers, rpClusters, rpMu, ac, nApply,
                   requestSum, requestSuccess, timeouts>>

\* return &scope{...}, nil and the deferred rp.Unlock()
UnlockScope(r) ==
    /\ req[r].pc = "clusterUnlocked"
    /\ req' = [req EXCEPT ![r] = [@ EXCEPT !.pc = "scoped", !.err = "",
                                    !.held = Drop(@, RpMutex)]]
    /\ rpMu' = "free"
    /\ UNCHANGED <<gens, rpUsers, rpClusters, ac, nApply,
                   requestSum, requestSuccess, timeouts>>

\* s.inc() and s.dec() change the host's counter under the host's lock
AdmitLocked(r) ==
    /\ req[r].pc = "scoped"
    /\ req[r].err = "" => Free(HostMutex(req[r].s, req[r].s.host))
    /\ Admit(r)

ReleaseLocked(r) ==
    /\ req[r].pc = "release"
    /\ Free(HostMutex(req[r].s, req[r].s.host))
    /\ Release(r)

\* killQueries copies the host addresses under the cluster's lock
TimeoutLocked(r) ==
    /\ req[r].pc = "select"
    /\ Free(ClusterMutex(req[r].s))
    /\ TimeoutInitial(r) \/ TimeoutExecution(r)

\* ------------------------------------------------------------ specifications
TypeStart ==
    /\ req = [r \in Reqs |-> NewReq]
    /\ requestSum = EmptyMetric
    /\ requestSuccess = EmptyMetric
    /\ timeouts = EmptyMetric

\* rp := &reverseProxy{}: NewReverseProxy is about to call ApplyConfig, and
\* requests are served once it has returned
Init ==
    /\ gens = <<>>
    /\ rpUsers = 0
    /\ rpClusters = 0
    /\ rpMu = "free"
    /\ ac = [pc |-> "idle", cfg |-> NoCfg, gen |-> 0, err |-> FALSE]
    /\ nApply = 0
    /\ TypeStart

ApplyConfig ==
    \/ \E cfg \in Configs : ApplyConfigBuild(cfg)
    \/ ApplySetClusters
    \/ ApplySetUsers

\* the program as NewReverseProxy and ApplyConfig build it. Every execution
\* user ApplyConfig builds has maxConcurrentQueries 0, so s.inc() fails for
\* every scope and no handler gets to the select: the steps after it are
\* steps of SpecScope only
Next ==
    \/ ApplyConfig
    \/ \E r \in Reqs : GetRequestScope(r)
    \/ \E r \in Reqs : Admit(r)
    \/ \E r \in Reqs : Return(r)

Spec == Init /\ [][Next]_vars

\* under Spec no request is ever dispatched
NeverDispatched ==
    \A r \in Reqs : req[r].pc \in {"idle", "scoped", "responded", "done"}

\* A generation whose entities hold every configured field: the execution
\* users their limits, the initial users their password. The admission and
\* dispatch code takes any scope over such entities; ApplyConfig itself only
\* builds the generations of NewGeneration.
FullExecutionUser(u) ==
    [NewExecutionUser(u) EXCEPT !.maxConcurrentQueries = u.maxConcurrentQueries,
                                !.maxExecutionTime = u.maxExecutionTime]

FullInitialUser(u) == [NewInitialUser(u) EXCEPT !.password = u.password]

FullGeneration(cfg) ==
    [cfg |-> cfg,
     clusters |-> [n \in {c.name : c \in Range(cfg.clusters)} |->
        LET c == cfg.clusters[LastIdx(cfg.clusters, n)] IN
        [hosts |-> NewCluster(c).hosts,
         users |-> [m \in {u.name : u \in Range(c.outUsers)} |->
                      FullExecutionUser(c.outUsers[LastIdx(c.outUsers, m)])]]],
     users |-> [n \in {u.name : u \in Range(cfg.globalUsers)} |->
        FullInitialUser(cfg.globalUsers[LastIdx(cfg.globalUsers, n)])]]

\* the proxy serving requests over a generation with every field set
InitScope ==
    /\ \E cfg \in {CfgA, CfgB} : gens = << FullGeneration(cfg) >>
    /\ rpUsers = 1
    /\ rpClusters = 1
    /\ rpMu = "free"
    /\ ac = [pc |-> "idle", cfg |-> NoCfg, gen |-> 0, err |-> FALSE]
    /\ nApply = 1
    /\ TypeStart

\* the whole handler, the race and the release included
NextScope ==
    \/ \E r \in Reqs : GetRequestScope(r)
    \/ \E r \in Reqs : Admit(r)
    \/ \E r \in Reqs : Return(r)
    \/ \E r \in Reqs : BackendReturn(r)
    \/ \E r \in Reqs : TimeoutInitial(r)
    \/ \E r \in Reqs : TimeoutExecution(r)
    \/ \E r \in Reqs : WriteTimeout(r)
    \/ \E r \in Reqs : Complete(r)
    \/ \E r \in Reqs : Release(r)

SpecScope == InitScope /\ [][NextScope]_vars

\* the scheduling of a handler: a timer that is due fires, a backend call of
\* d ms returns after d ms, and a handler that can take its next step takes
\* it; nothing is assumed of a backend call whose context is cancelled
HandlerFairness(r) ==
    /\ WF_vars(BackendReturn(r) /\ req[r].pc = "select")
    /\ WF_vars(TimeoutInitial(r))
    /\ WF_vars(TimeoutExecution(r))
    /\ WF_vars(WriteTimeout(r))
    /\ WF_vars(Complete(r))
    /\ WF_vars(Release(r))

SpecScopeFair == SpecScope /\ \A r \in Reqs : HandlerFairness(r)

\* the configurations of a reload while requests are served
ReloadConfigs == {CfgA, CfgB, CfgNoUser}

\* ApplyConfig called again, as the configuration file is reloaded
Reload ==
    \/ \E cfg \in ReloadConfigs : ApplyConfigBuild(cfg)
    \/ ApplySetClusters
    \/ ApplySetUsers

\* the whole handler with reloads in between: requests are admitted over the
\* first generation, the generations of a reload are those ApplyConfig builds
NextReload == NextScope \/ Reload

SpecReload == InitScope /\ [][NextReload]_vars

\* the handler and the reloads with every Lock() and Unlock() of
\* getRequestScope and getHost a step of its own
NextLocks ==
    \/ \E r \in Reqs : LockScope(r)
    \/ \E r \in Reqs : LockCluster(r)
    \/ \E r \in Reqs : LockHost(r)
    \/ \E r \in Reqs : ReadHost(r)
    \/ \E r \in Reqs : LoopEnd(r)
    \/ \E r \in Reqs : UnlockCluster(r)
    \/ \E r \in Reqs : UnlockScope(r)
    \/ \E r \in Reqs : AdmitLocked(r)
    \/ \E r \in Reqs : Return(r)
    \/ \E r \in Reqs : BackendReturn(r)
    \/ \E r \in Reqs : TimeoutLocked(r)
    \/ \E r \in Reqs : WriteTimeout(r)
    \/ \E r \in Reqs : Complete(r)
    \/ \E r \in Reqs : ReleaseLocked(r)
    \/ Reload

SpecLocks == InitScope /\ [][NextLocks]_vars

\* the proxy with a three-host cluster on which requests of u3, not among
\* Reqs, are running: the hosts' counters are any counts up to MaxCount
InitHost ==
    /\ \E counts \in [1..3 -> 0..MaxCount] :
         LET g == FullGeneration(CfgH)
             n == counts[1] + counts[2] + counts[3] IN
         gens = << [g EXCEPT !.clusters["c1"].hosts =
                                 [i \in 1..3 |-> [@[i] EXCEPT !.runningQueries = counts[i]]],
                             !.clusters["c1"].users["eu1"].runningQueries = n,
                             !.users["u3"].runningQueries = n] >>
    /\ rpUsers = 1
    /\ rpClusters = 1
    /\ rpMu = "free"
    /\ ac = [pc |-> "idle", cfg |-> NoCfg, gen |-> 0, err |-> FALSE]
    /\ nApply = 1
    /\ TypeStart

\* scope resolution, getHost included, on that cluster
NextHost == \E r \in Reqs : GetRequestScope(r)

SpecHost == InitHost /\ [][NextHost]_vars

\* ------------------------------------------------------------------- claims
\* the requests that have passed s.inc() and not yet called s.dec()
PastInc(r) == req[r].pc \in {"select", "killed", "release"}

InFlight(g, u) ==
    {r \in Reqs : PastInc(r) /\ req[r].s.gen = g /\ req[r].s.initialUser = u}

LimitErrors ==
    {"limits for initial user are exceeded", "limits for execution user are exceeded"}

CfgGlobalUser(cfg, n) == cfg.globalUsers[LastIdx(cfg.globalUsers, n)]

CfgOutUser(cfg, cn, n) ==
    LET c == cfg.clusters[LastIdx(cfg.clusters, cn)]
    IN  c.outUsers[LastIdx(c.outUsers, n)]

\* a configuration ApplyConfig has to reject: invalid, a node address that
\* does not parse, or a global user whose cluster, or whose execution user
\* in that cluster, is not configured
Rejectable(cfg) ==
    \/ ~cfg.valid
    \/ \E c \in Range(cfg.clusters) : \E i \in 1..Len(c.nodes) : c.nodes[i] = "bad host"
    \/ \E u \in Range(cfg.globalUsers) :
          ~\E c \in Range(cfg.clusters) :
              /\ c.name = u.toCluster
              /\ \E o \in Range(c.outUsers) : o.name = u.toUser

\* a step leaves the active maps, and what they hold, as they are
ActiveUnchanged ==
    /\ rpUsers' = rpUsers
    /\ rpClusters' = rpClusters
    /\ UsersMap' = UsersMap
    /\ ClustersMap' = ClustersMap

C5_ScopeOneGeneration ==
    \A r \in Reqs :
        (req[r].pc = "scoped" /\ req[r].err = "") =>
            LET s == req[r].s IN
            /\ s.gen = s.cgen
            /\ s.gen \in 1..Len(gens)
            /\ s.initialUser \in DOMAIN gens[s.gen].users
            /\ s.cluster \in DOMAIN gens[s.gen].clusters
            /\ s.executionUser \in DOMAIN gens[s.gen].clusters[s.cluster].users
            /\ s.host \in 1..Len(gens[s.gen].clusters[s.cluster].hosts)

\* two scopes are held at once, one of each of two generations
C5_Witness ==
    \E r1, r2 \in Reqs :
        /\ req[r1].pc = "scoped" /\ req[r1].err = "" /\ req[r1].s.gen = 1
        /\ req[r2].pc = "scoped" /\ req[r2].err = "" /\ req[r2].s.gen = 2

\* C6: once ApplyConfig has succeeded, every execution user and every
\* initial user of the active topology carries the name, the password and
\* the two limits its configuration gives it, and every initial user its
\* target cluster and target execution user
C6_EntitiesCarryConfig ==
    (ac.pc = "idle" /\ rpUsers # 0) =>
        LET g == gens[rpUsers]
            cfg == g.cfg IN
        /\ \A c \in Range(cfg.clusters) : \A o \in Range(c.outUsers) :
              LET e == g.clusters[c.name].users[o.name] IN
              /\ e.name = o.name
              /\ e.password = o.password
              /\ e.maxConcurrentQueries = o.maxConcurrentQueries
              /\ e.maxExecutionTime = o.maxExecutionTime
        /\ \A u \in Range(cfg.globalUsers) :
              LET i == g.users[u.name] IN
              /\ i.name = u.name
              /\ i.password = u.password
              /\ i.maxConcurrentQueries = u.maxConcurrentQueries
              /\ i.maxExecutionTime = u.maxExecutionTime
              /\ i.toCluster = u.toCluster
              /\ i.toUser = u.toUser

\* the credentials are those of a global user of the configuration
ConfiguredCredentials(cfg, name, password) ==
    \E u \in Range(cfg.globalUsers) : u.name = name /\ u.password = password

\* C7: getRequestScope returns a scope exactly when the username is that of
\* an initial user of the active topology and the password is the one
\* configured for it
C7_ScopeIffCredentials ==
    [][\A r \in Reqs :
          (req[r].pc = "idle" /\ req'[r].pc = "scoped") =>
              /\ req'[r].err = "" <=>
                    /\ rpUsers # 0
                    /\ ConfiguredCredentials(gens[rpUsers].cfg, req'[r].name, req'[r].password)
              /\ req'[r].err # "" => req'[r].s = NoScope]_vars

\* the limits the configuration of a scope's generation gives its two users
CfgInitial(s) == CfgGlobalUser(gens[s.gen].cfg, s.initialUser)
CfgExecution(s) == CfgOutUser(gens[s.cgen].cfg, s.cluster, s.executionUser)

\* a scope obtained with the configured credentials of its initial user
ValidScope(r) ==
    /\ req[r].pc = "scoped"
    /\ req[r].err = ""
    /\ ConfiguredCredentials(gens[req[r].s.gen].cfg, req[r].name, req[r].password)

\* fewer requests are in flight for the scope's two users than configured
SlotFree(s) ==
    /\ Cardinality(InFlight(s.gen, s.initialUser)) < CfgInitial(s).maxConcurrentQueries
    /\ Cardinality({q \in Reqs : /\ PastInc(q)
                                 /\ req[q].s.cgen = s.cgen
                                 /\ req[q].s.cluster = s.cluster
                                 /\ req[q].s.executionUser = s.executionUser})
          < CfgExecution(s).maxConcurrentQueries

\* C8: a request with valid credentials and a free slot is dispatched; no
\* deadline can win against a backend call shorter than both configured
\* limits; and when such a call is received the client has the backend's
\* response alone, one success is counted for the scope's label, no timeout
\* is counted, the context is not cancelled and no kill query was sent
C8_CompletionBranch ==
    [][\A r \in Reqs :
          /\ (ValidScope(r) /\ SlotFree(req[r].s) /\ req'[r] # req[r])
                => req'[r].pc = "select"
          /\ (ValidScope(r) /\ SlotFree(req[r].s)) =>
                \A d \in Durations :
                    ( /\ d # NoReturn
                      /\ d < CfgInitial(req[r].s).maxExecutionTime
                      /\ d < CfgExecution(req[r].s).maxExecutionTime )
                    => /\ ~FiresFirst(d, InitialLimit(r), ExecutionLimit(r))
                       /\ ~FiresFirst(d, ExecutionLimit(r), InitialLimit(r))
          /\ ( /\ req[r].pc = "select"
               /\ req'[r].pc # "select"
               /\ req[r].d # NoReturn
               /\ req[r].d < InitialLimit(r)
               /\ req[r].d < ExecutionLimit(r) )
             => /\ req'[r].branch = "completion"
                /\ req'[r].rw = <<"backend response">>
                /\ requestSuccess' = MetricInc(requestSuccess, Label(req[r].s))
                /\ timeouts' = timeouts
                /\ ~req'[r].cancelled
                /\ req'[r].kills = <<>>]_vars

\* C10: the deadlines armed for a scope are the two configured limits; when
\* one is strictly smaller and the backend call is still running at that
\* time, that user's case is the only one that can win; the initial-user case
\* names the initial user and kills by http_user_agent, the execution-user
\* case names the execution user and kills by initial_user
C10_SmallerLimitWins ==
    \A r \in Reqs :
        /\ (req[r].pc \in {"scoped", "select"} /\ req[r].err = "") =>
              LET ci == CfgInitial(req[r].s).maxExecutionTime
                  ce == CfgExecution(req[r].s).maxExecutionTime IN
              /\ InitialLimit(r) = ci
              /\ ExecutionLimit(r) = ce
              /\ \A d \in Durations :
                    /\ (ci < ce /\ (d = NoReturn \/ d > ci)) =>
                          /\ FiresFirst(d, InitialLimit(r), ExecutionLimit(r))
                          /\ ~FiresFirst(d, ExecutionLimit(r), InitialLimit(r))
                    /\ (ce < ci /\ (d = NoReturn \/ d > ce)) =>
                          /\ FiresFirst(d, ExecutionLimit(r), InitialLimit(r))
                          /\ ~FiresFirst(d, InitialLimit(r), ExecutionLimit(r))
        /\ (req[r].pc = "release" /\ req[r].branch = "initial") =>
              /\ "timeout for initial user " \o req[r].s.initialUser \o " exceeded"
                    \in Range(req[r].rw)
              /\ \A i \in 1..Len(req[r].kills) :
                    req[r].kills[i].condition =
                        "http_user_agent = 'ClickHouseProxy: " \o req[r].s.initialUser \o "'"
        /\ (req[r].pc = "release" /\ req[r].branch = "execution") =>
              /\ "timeout for execution user " \o req[r].s.executionUser \o " exceeded"
                    \in Range(req[r].rw)
              /\ \A i \in 1..Len(req[r].kills) :
                    req[r].kills[i].condition =
                        "initial_user = '" \o req[r].s.executionUser \o "'"

\* the host getHost has to return for a host list: the first with count 0,
\* else the first whose count is the minimum of the list
FirstIdx(I) == CHOOSE i \in I : \A j \in I : i <= j

LeastLoaded(hosts) ==
    LET Z == {i \in 1..Len(hosts) : hosts[i].runningQueries = 0}
        M == {i \in 1..Len(hosts) :
                \A j \in 1..Len(hosts) : hosts[i].runningQueries <= hosts[j].runningQueries}
    IN  IF Z # {} THEN FirstIdx(Z) ELSE FirstIdx(M)

\* C11: the host of every scope getRequestScope returns is the first host of
\* the cluster with running count 0 if there is one, else the first host
\* whose count is the minimum over the cluster; the call changes no counter
C11_GetHostLeastLoaded ==
    [][\A r \in Reqs :
          (req[r].pc = "idle" /\ req'[r].pc = "scoped" /\ req'[r].err = "") =>
              LET s == req'[r].s
                  hosts == gens[s.cgen].clusters[s.cluster].hosts IN
              /\ s.host = LeastLoaded(hosts)
              /\ gens' = gens]_vars

\* getHost was called on counts [2,3,1] and returned the third host
C11_Witness ==
    \E r \in Reqs :
        /\ req[r].pc = "scoped" /\ req[r].err = ""
        /\ LET hosts == gens[1].clusters["c1"].hosts IN
           /\ [i \in 1..3 |-> hosts[i].runningQueries] = <<2, 3, 1>>
           /\ req[r].s.host = 3

\* the errors getRequestScope tags as an internal inconsistency
BugErrors == {"BUG: unknown cluster", "BUG: unknown user"}

\* C12: whenever rp's lock is free, every initial user of the active users
\* map names a cluster of the active clusters map and an execution user of
\* that cluster, and no getRequestScope call has returned a BUG error
C12_MappingsResolve ==
    /\ rpMu = "free" =>
          \A n \in DOMAIN UsersMap :
              /\ UsersMap[n].toCluster \in DOMAIN ClustersMap
              /\ UsersMap[n].toUser \in DOMAIN ClustersMap[UsersMap[n].toCluster].users
    /\ \A r \in Reqs : req[r].err \notin BugErrors

\* a scope was resolved in the second generation after two successful
\* ApplyConfig calls
C12_Witness ==
    /\ nApply = 2
    /\ rpUsers = 2
    /\ rpClusters = 2
    /\ \E r \in Reqs : req[r].pc = "scoped" /\ req[r].err = "" /\ req[r].s.gen = 2

\* generation g was built from the configuration of the generation before it
SameConfigBefore(g) == g > 1 /\ gens[g].cfg = gens[g - 1].cfg

\* a request admitted over the generation before g has not yet called dec()
InFlightAcross(g) == \E q \in Reqs : PastInc(q) /\ req[q].s.gen = g - 1

\* the scope the same request would have in the generation before its own
PreviousScope(s) ==
    [s EXCEPT !.gen = s.gen - 1, !.cgen = s.cgen - 1,
              !.host = GetHost(gens[s.cgen - 1].clusters[s.cluster])]

FiredLimit(r) ==
    IF req[r].branch = "initial" THEN InitialLimit(r) ELSE ExecutionLimit(r)

BackendBytes == {"backend response", "bad gateway"}

Rank(m) == CASE m.kind = "rp" -> 1 [] m.kind = "cluster" -> 2 [] m.kind = "host" -> 3

\* the mutex a call is about to Lock(), as a set: empty when its next step is
\* not a Lock()
Wanted(t) ==
    IF t = 0 THEN IF ac.pc = "idle" THEN {RpMutex} ELSE {}
    ELSE IF req[t].pc = "idle" THEN {RpMutex}
    ELSE IF req[t].pc = "getHost" THEN {ClusterMutex(req[t].s)}
    ELSE IF req[t].pc = "hostLoop" /\ req[t].i <= Len(HostsOf(req[t].s))
         THEN {HostMutex(req[t].s, req[t].i)}
    ELSE IF req[t].pc \in {"select", "killed"} THEN {ClusterMutex(req[t].s)}
    ELSE IF req[t].pc = "release" \/ (req[t].pc = "scoped" /\ req[t].err = "")
         THEN {HostMutex(req[t].s, req[t].s.host)}
    ELSE {}

\* t waits for a mutex that u holds
WaitsFor(t, u) == \E m \in Wanted(t) : m \in Range(Held(u))

\* the pcs of a ServeHTTP call inside getRequestScope's critical section
InScope == {"getHost", "hostLoop", "hostLocked", "gotHost", "clusterUnlocked"}

Admitted == {r \in Reqs : PastInc(r)}

====
